---- MODULE Spec2Model ----
(***************************************************************************)
(* Staff-portal backend (srmvec-cse-portal).  The repository holds seven   *)
(* revisions of server.js; a deployment runs exactly one of them.  The     *)
(* model picks the revision and its environment in Init and then runs the  *)
(* request handlers of that revision, one action per route.                *)
(*                                                                         *)
(* JavaScript values: a string is the sequence of its characters;          *)
(* undefined and false are one-element sequences that equal no string.     *)
(***************************************************************************)
EXTENDS Integers, Sequences, FiniteSets, TLC

\* ------------------------------------------------------------------ values

Undef == <<"#undefined">>
False == <<"#false">>

\* a JSON number in a request body (the number 1)
NUM_1 == <<"#number", "1">>

\* typeof v === 'string'
IsString(v) == v \notin {Undef, False, NUM_1}

\* JavaScript truthiness of a string / undefined / false / a non-zero number
Truthy(v) == v # Undef /\ v # False /\ v # <<>>

\* v || ''
OrEmpty(v) == IF Truthy(v) THEN v ELSE <<>>

\* String(v), as res.cookie applies it to the cookie value
ToStr(v) == IF v = Undef THEN <<"u","n","d","e","f","i","n","e","d">> ELSE v

RECURSIVE TrimLeft(_)
TrimLeft(s) == IF s # <<>> /\ Head(s) = " " THEN TrimLeft(Tail(s)) ELSE s

RECURSIVE TrimRight(_)
TrimRight(s) ==
  IF s # <<>> /\ s[Len(s)] = " " THEN TrimRight(SubSeq(s, 1, Len(s) - 1)) ELSE s

\* String.prototype.trim
Trim(s) == TrimRight(TrimLeft(s))

IsDigit(c) == c \in {"0","1","2","3","4","5","6","7","8","9"}

\* s.replace(/\D/g, '')
StripNonDigits(s) == SelectSeq(s, IsDigit)

\* ------------------------------------------------------------------ bounds

\* longest note text a request carries
MaxNoteLen == 2

NoteChars == {"x"}

RECURSIVE SeqsUpTo(_, _)
SeqsUpTo(S, n) ==
  IF n = 0 THEN {<<>>}
  ELSE LET shorter == SeqsUpTo(S, n - 1)
       IN  shorter \cup {Append(s, c) : s \in {t \in shorter : Len(t) = n - 1}, c \in S}

\* the notes field of a request body: absent, or a text
NoteInputs == {Undef} \cup SeqsUpTo(NoteChars, MaxNoteLen)

\* ------------------------------------------------------------------ revisions

V_ENV_FILE    == "server.js:1-165"
V_JSON_DIAG   == "server.js:167-352"
V_ENV_GUARD   == "part_000:1-176"
V_USER        == "part_000:177-407"
V_JSON        == "part_001"
V_ENV_DEFAULT == "part_002"
V_ENV_TABLE   == "part_003"

Variants ==
  {V_ENV_FILE, V_JSON_DIAG, V_ENV_GUARD, V_USER, V_JSON, V_ENV_DEFAULT, V_ENV_TABLE}

\* revisions whose staff credential is the pair STAFF_EMAIL / STAFF_PHONE
EnvVariants == {V_ENV_FILE, V_ENV_GUARD, V_ENV_DEFAULT, V_ENV_TABLE}
\* revisions whose staff records are read from staff.json on every request
JsonVariants == {V_JSON, V_JSON_DIAG}

\* ------------------------------------------------------------------ strings

EMAIL_A   == <<"a","@","x">>
EMAIL_B   == <<"b","@","x">>
STR_TRUE  == <<"t","r","u","e">>
STR_STAFF == <<"s","t","a","f","f">>
STR_NOTES == <<"n","o","t","e","s">>
USER_1    == <<"u","1">>
USER_2    == <<"u","2">>
PHONE_6   == <<"6">>
PHONE_7   == <<"7">>
PHONE_916 == <<"+","9","1","6">>
PW_1      == <<"p","1">>
PW_2      == <<"p","2">>
ADMIN_PW  == <<"a","d","m">>
TEXT_HTML == <<"text/html">>

URL_PLACEMENT    == <<"https://forms/placement">>
URL_ACHIEVEMENTS == <<"https://forms/achievements">>
URL_CODERIZZ     == <<"https://forms/coderizz">>

\* the value of a property inherited from Object.prototype (a function)
Inherited == <<"#Object.prototype">>

COOKIE_SECRET == "server-secret"
ATTACKER_KEY  == "other-secret"

\* ------------------------------------------------------------------ cookies

\* A Cookie header entry: absent, a plain value, or 's:' + val + '.' + HMAC(key, mval).
\* A value the server signed has mval = val and key = COOKIE_SECRET.
NoCookie == [form |-> "none", val |-> Undef, key |-> "", mval |-> Undef]

Plain(v) == [form |-> "plain", val |-> v, key |-> "", mval |-> Undef]

\* cookie-signature sign(), as res.cookie(name, value, {signed: true}) calls it:
\* the MAC covers the value only, not the cookie's name
Sign(v, secret) == [form |-> "signed", val |-> v, key |-> secret, mval |-> v]

\* a cookie parser that reads the value of a signed cookie without checking its MAC
UnsignUnverified(c, secret) == IF c.form # "signed" THEN Undef ELSE c.val

\* req.signedCookies[name] as cookie-parser fills it: the value when the MAC
\* verifies, false when it does not, undefined for a missing or unsigned cookie
Unsign(c, secret) ==
  IF c.form # "signed" THEN Undef
  ELSE IF c.key = secret /\ c.mval = c.val THEN c.val
  ELSE False

\* ------------------------------------------------------------------ state

VARIABLES
  variant,         \* the revision of server.js this deployment runs
  STAFF_EMAIL,     \* process.env.STAFF_EMAIL (or its default), Undef when unset
  STAFF_PHONE,     \* process.env.STAFF_PHONE (or its default), Undef when unset
  ADMIN_PASSWORD,  \* process.env.ADMIN_PASSWORD (or its default), Undef when unset
  tableClient,     \* TRUE when a TableClient was constructed, FALSE when null
  GFORM,           \* form category -> configured URL ('' when not configured)
  staffJson,       \* the records of staff.json
  notesFile,       \* notes.json: set of [key, text]
  table,           \* the remote table: set of entities
  staffIssued,     \* signed values handed out by the staff login route
  adminIssued,     \* signed values handed out by the admin login route
  crashed,         \* the process died on an uncaught exception
  last,            \* the last request and its response
  pending          \* the POST /api/notes runs, in order of arrival, with their progress

cfgVars == <<variant, STAFF_EMAIL, STAFF_PHONE, ADMIN_PASSWORD, tableClient, GFORM, staffJson>>
storeVars == <<notesFile, table>>
issuedVars == <<staffIssued, adminIssued>>
vars == <<cfgVars, storeVars, issuedVars, crashed, last, pending>>

\* bcrypt.hash(password, 10): a salted one-way value
BcryptHash(password) == <<"#bcrypt", "salt">> \o password

\* bcrypt.compare(password, hash)
BcryptCompare(password, hash) ==
  /\ Len(hash) >= 2
  /\ hash[1] = "#bcrypt"
  /\ SubSeq(hash, 3, Len(hash)) = password

\* a table entity; a property the entity does not carry is Undef
Entity(pk, rk, notes, name, phone, passwordHash) ==
  [partitionKey |-> pk, rowKey |-> rk, notes |-> notes, name |-> name,
   phone |-> phone, passwordHash |-> passwordHash]

StaffRecord(email, phone) == [email |-> email, phone |-> phone]

\* undefined, as Array.prototype.find returns it
NoStaff == StaffRecord(Undef, Undef)

\* staff.json as deployed: two accounts under part_001, one under server.js
InitStaffJson ==
  IF variant = V_JSON
    THEN << StaffRecord(EMAIL_A, PHONE_916), StaffRecord(STR_TRUE, PHONE_7) >>
    ELSE << StaffRecord(EMAIL_A, PHONE_916) >>

\* the table as provisioned: one account with a password hash, one record that
\* has none yet
InitUserTable ==
  { Entity(STR_STAFF, USER_1, Undef, USER_1, <<>>, BcryptHash(PW_1)),
    Entity(STR_STAFF, USER_2, Undef, USER_2, <<>>, Undef) }

HardCodedForms ==
  [placement |-> URL_PLACEMENT, achievements |-> URL_ACHIEVEMENTS, coderizz |-> URL_CODERIZZ]

\* process.env.GFORM_* || '' for each category: one category left unconfigured
EnvForms ==
  [placement |-> URL_PLACEMENT, achievements |-> <<>>, coderizz |-> URL_CODERIZZ]

\* no outbound request was made
NoUpstream == [kind |-> "none", statusCode |-> 0, contentType |-> Undef]

\* the request and response fields of a handler run that are not set otherwise
Blank ==
  [op |-> "none", auth |-> NoCookie, adminAuth |-> NoCookie,
   email |-> Undef, phone |-> Undef, username |-> Undef, password |-> Undef,
   notes |-> Undef, type |-> Undef, backend |-> "ok",
   status |-> 0, success |-> Undef, bodyNotes |-> Undef, bodyId |-> Undef,
   setAuth |-> NoCookie, setAdminAuth |-> NoCookie,
   clearAuth |-> FALSE, clearAdminAuth |-> FALSE,
   identity |-> Undef, ran |-> FALSE, persisted |-> FALSE, again |-> FALSE,
   fetched |-> Undef, redirect |-> Undef, contentType |-> Undef,
   upstream |-> NoUpstream, body |-> Undef, staff |-> NoStaff]

Init ==
  /\ variant \in Variants
  /\ \E set \in BOOLEAN :
       /\ STAFF_EMAIL = IF variant \in EnvVariants /\ (set \/ variant = V_ENV_DEFAULT)
                        THEN EMAIL_A ELSE Undef
       /\ STAFF_PHONE = IF variant \in EnvVariants /\ (set \/ variant = V_ENV_DEFAULT)
                        THEN PHONE_6 ELSE Undef
       /\ variant \notin EnvVariants \ {V_ENV_DEFAULT} => set
  /\ ADMIN_PASSWORD \in
       IF variant \in {V_ENV_FILE, V_ENV_GUARD, V_ENV_TABLE} THEN {Undef, ADMIN_PW} ELSE {ADMIN_PW}
  /\ tableClient \in IF variant = V_ENV_FILE THEN {FALSE} ELSE BOOLEAN
  /\ GFORM = IF variant \in JsonVariants \cup {V_USER} THEN EnvForms ELSE HardCodedForms
  /\ staffJson = IF variant \in JsonVariants THEN InitStaffJson ELSE <<>>
  /\ notesFile = {}
  /\ table = IF variant = V_USER /\ tableClient THEN InitUserTable ELSE {}
  /\ staffIssued = {}
  /\ adminIssued = {}
  /\ crashed = FALSE
  /\ last = Blank
  /\ pending = <<>>

\* ------------------------------------------------------------------ requests

\* the values a client may put into a request's email / username field
EmailInputs == {Undef, EMAIL_A, <<" ">> \o EMAIL_A, EMAIL_B, STR_TRUE}

PhoneInputs == {Undef, PHONE_6, PHONE_916, <<"9","1","-","6">>, PHONE_7, <<"-">>}

\* the identifier the deployment's first staff account logs in under
VictimId == IF variant = V_USER THEN USER_1 ELSE EMAIL_A

\* what a client can send as a cookie: nothing, a plain value, a value signed
\* with a key that is not the server's, any value a login route signed, and such a
\* value with its text altered to v
CookieInputs(v) ==
  LET issued == staffIssued \cup adminIssued
  IN  {NoCookie, Plain(v), Sign(v, ATTACKER_KEY)}
        \cup issued
        \cup {[c EXCEPT !.val = v] : c \in issued}

\* the connectivity of the storage backend while a request is served
BackendStates == {"ok", "error"}

\* ------------------------------------------------------------------ helpers

Min(S) == CHOOSE m \in S : \A n \in S : m <= n

\* a lookup that returns the last record satisfying the rules
FindStaffLastMatch(list, email, phone) ==
  LET hit == {i \in DOMAIN list :
                /\ list[i].email = email
                /\ \/ list[i].phone = phone
                   \/ list[i].phone = <<"+","9","1">> \o phone
                   \/ StripNonDigits(list[i].phone) = StripNonDigits(phone)}
  IN  IF hit = {} THEN NoStaff ELSE list[CHOOSE m \in hit : \A n \in hit : m >= n]

\* Array.prototype.find over the staff list: the first record that satisfies the
\* email and phone rules, undefined (NoStaff) when none does
FindStaffByEmailAndPhone(list, email, phone) ==
  LET hit == {i \in DOMAIN list :
                /\ list[i].email = email
                /\ \/ list[i].phone = phone
                   \/ list[i].phone = <<"+","9","1">> \o phone
                   \/ StripNonDigits(list[i].phone) = StripNonDigits(phone)}
  IN  IF hit = {} THEN NoStaff ELSE list[Min(hit)]

\* loadStaffList().find(s => s.email === auth)
FindStaffByEmail(list, email) ==
  LET hit == {i \in DOMAIN list : list[i].email = email}
  IN  IF hit = {} THEN NoStaff ELSE list[Min(hit)]

\* null, as getUser returns it
NoEntity == Entity(Undef, Undef, Undef, Undef, Undef, Undef)

\* tableClient.getEntity(pk, rk): the entity, or a thrown error with its statusCode
GetEntity(pk, rk, backend) ==
  LET found == {e \in table : e.partitionKey = pk /\ e.rowKey = rk}
  IN  IF backend = "error" THEN [ok |-> FALSE, statusCode |-> 0, entity |-> NoEntity]
      ELSE IF found = {} THEN [ok |-> FALSE, statusCode |-> 404, entity |-> NoEntity]
      ELSE [ok |-> TRUE, statusCode |-> 200, entity |-> CHOOSE e \in found : TRUE]

\* one property of a merged entity: the new value when the update carries it
MergeField(old, new) == IF new # Undef THEN new ELSE old

\* an upsert that adds a row without looking for the one already there
UpsertEntityAdding(tbl, e) == tbl \cup {e}

\* tableClient.upsertEntity(entity, 'Merge'): insert, or merge into the entity
\* that has the same partitionKey and rowKey
UpsertEntity(tbl, e) ==
  LET same == {o \in tbl : o.partitionKey = e.partitionKey /\ o.rowKey = e.rowKey}
      merged == IF same = {} THEN e
                ELSE LET o == CHOOSE x \in same : TRUE
                     IN  Entity(e.partitionKey, e.rowKey,
                                MergeField(o.notes, e.notes), MergeField(o.name, e.name),
                                MergeField(o.phone, e.phone),
                                MergeField(o.passwordHash, e.passwordHash))
  IN  (tbl \ same) \cup {merged}

\* getUser(username): the entity ('staff', username), null without a table
\* client, on a missing entity and on any error
GetUser(username, backend) ==
  IF ~tableClient THEN NoEntity
  ELSE LET r == GetEntity(STR_STAFF, username, backend)
       IN  IF r.ok THEN r.entity ELSE NoEntity

\* loadNotes()[key] of notes.json, undefined when the key is absent
FileNote(data, key) ==
  LET found == {e \in data : e.key = key}
  IN  IF found = {} THEN Undef ELSE (CHOOSE e \in found : TRUE).text

\* data[key] = text on the object loadNotes() returned
FileAssign(data, key, text) ==
  {e \in data : e.key # key} \cup {[key |-> key, text |-> text]}

\* ------------------------------------------------------------------ middleware

Rejected(status) == [pass |-> FALSE, status |-> status, identity |-> Undef]
Passed(identity) == [pass |-> TRUE, status |-> 200, identity |-> identity]

\* requireAuth of the running revision, on the request's 'auth' cookie
RequireAuth(cookie) ==
  LET auth == Unsign(cookie, COOKIE_SECRET)
  IN  IF variant \in EnvVariants THEN
        IF ~Truthy(auth) \/ auth # STAFF_EMAIL THEN Rejected(401) ELSE Passed(STAFF_EMAIL)
      ELSE IF variant \in JsonVariants THEN
        IF ~Truthy(auth) THEN Rejected(401)
        ELSE LET staff == FindStaffByEmail(staffJson, auth)
             IN  IF staff = NoStaff THEN Rejected(401) ELSE Passed(staff.email)
      ELSE
        IF ~Truthy(auth) THEN Rejected(401) ELSE Passed(auth)

\* requireAdmin, on the request's 'adminAuth' cookie
RequireAdmin(cookie) ==
  LET adminAuth == Unsign(cookie, COOKIE_SECRET)
  IN  IF adminAuth = STR_TRUE THEN Passed(Undef) ELSE Rejected(403)

\* res.status(status).json({success}) 
Reply(req, status, success) == [req EXCEPT !.status = status, !.success = success]

\* ------------------------------------------------------------------ staff login

\* POST /api/login {email, phone}
ApiLogin(email, phone) ==
  /\ ~crashed
  /\ variant # V_USER
  /\ LET req == [Blank EXCEPT !.op = "POST /api/login", !.email = email,
                              !.phone = phone, !.ran = TRUE]
     IN  IF variant \in EnvVariants THEN
           IF email = STAFF_EMAIL /\ phone = STAFF_PHONE THEN
             /\ last' = [Reply(req, 200, "true") EXCEPT
                           !.setAuth = Sign(ToStr(email), COOKIE_SECRET)]
             /\ staffIssued' = staffIssued \cup {Sign(ToStr(email), COOKIE_SECRET)}
           ELSE
             /\ last' = Reply(req, 401, "false")
             /\ UNCHANGED staffIssued
         ELSE
           IF ~Truthy(email) \/ ~Truthy(phone) THEN
             /\ last' = Reply(req, 400, "false")
             /\ UNCHANGED staffIssued
           ELSE
             LET staff == FindStaffByEmailAndPhone(staffJson, Trim(email), Trim(phone))
             IN  IF staff = NoStaff THEN
                   /\ last' = Reply(req, 401, "false")
                   /\ UNCHANGED staffIssued
                 ELSE
                   /\ last' = [Reply(req, 200, "true") EXCEPT
                                 !.setAuth = Sign(staff.email, COOKIE_SECRET),
                                 !.staff = staff]
                   /\ staffIssued' = staffIssued \cup {Sign(staff.email, COOKIE_SECRET)}
  /\ UNCHANGED <<pending, cfgVars, storeVars, adminIssued, crashed>>

\* POST /api/staff/login {username, password}
ApiStaffLogin(username, password, backend) ==
  /\ ~crashed
  /\ variant = V_USER
  /\ LET req == [Blank EXCEPT !.op = "POST /api/staff/login", !.username = username,
                              !.password = password, !.backend = backend, !.ran = TRUE]
         user == GetUser(username, backend)
     IN  IF ~Truthy(username) \/ ~Truthy(password) THEN
           /\ last' = Reply(req, 400, "false")
           /\ UNCHANGED staffIssued
         ELSE IF user = NoEntity \/ ~Truthy(user.passwordHash) THEN
           /\ last' = Reply(req, 401, "false")
           /\ UNCHANGED staffIssued
         ELSE IF ~IsString(password) THEN
           \* bcrypt.compare rejects data that is not a string; the catch answers
           /\ last' = Reply(req, 500, "false")
           /\ UNCHANGED staffIssued
         ELSE IF ~BcryptCompare(password, user.passwordHash) THEN
           /\ last' = Reply(req, 401, "false")
           /\ UNCHANGED staffIssued
         ELSE
           /\ last' = [Reply(req, 200, "true") EXCEPT
                         !.setAuth = Sign(username, COOKIE_SECRET)]
           /\ staffIssued' = staffIssued \cup {Sign(username, COOKIE_SECRET)}
  /\ UNCHANGED <<pending, cfgVars, storeVars, adminIssued, crashed>>

\* GET /api/me
ApiMe(cookie, backend) ==
  /\ ~crashed
  /\ (variant # V_USER \/ ~RequireAuth(cookie).pass) => backend = "ok"
  /\ LET req == [Blank EXCEPT !.op = "GET /api/me", !.auth = cookie, !.backend = backend]
         gate == RequireAuth(cookie)
         run == [req EXCEPT !.ran = TRUE, !.identity = gate.identity]
     IN  IF ~gate.pass THEN last' = [req EXCEPT !.status = gate.status]
         ELSE IF variant = V_USER THEN
           LET user == GetUser(gate.identity, backend)
           IN  IF user = NoEntity THEN last' = [run EXCEPT !.status = 404]
               ELSE last' = [run EXCEPT !.status = 200, !.bodyId = user.rowKey]
         ELSE last' = [run EXCEPT !.status = 200, !.bodyId = gate.identity]
  /\ UNCHANGED <<pending, cfgVars, storeVars, issuedVars, crashed>>

\* ------------------------------------------------------------------ notes

\* the note entity the table revisions write: {partitionKey, rowKey: 'notes', notes}
NoteEntity(principal, text) == Entity(principal, STR_NOTES, text, Undef, Undef, Undef)

\* getNotesFromTable / getNotesForUser: '' without a client, on a missing entity
\* and on any error
GetNotesFromTable(principal, backend) ==
  IF ~tableClient THEN <<>>
  ELSE LET r == GetEntity(principal, STR_NOTES, backend)
       IN  IF r.ok THEN OrEmpty(r.entity.notes) ELSE <<>>

\* the text GET /api/notes would return for a principal from a healthy store
StoredNote(principal) ==
  IF variant = V_ENV_FILE THEN OrEmpty(FileNote(notesFile, ToStr(principal)))
  ELSE LET r == GetEntity(principal, STR_NOTES, "ok")
       IN  IF r.ok THEN OrEmpty(r.entity.notes) ELSE <<>>

\* GET /api/notes
ApiGetNotes(cookie, backend) ==
  /\ ~crashed
  /\ (variant = V_ENV_FILE \/ ~tableClient) => backend = "ok"
  /\ ~RequireAuth(cookie).pass => backend = "ok"
  /\ LET req == [Blank EXCEPT !.op = "GET /api/notes", !.auth = cookie, !.backend = backend]
         gate == RequireAuth(cookie)
         run == [req EXCEPT !.ran = TRUE, !.identity = gate.identity]
         ok(text) == [run EXCEPT !.status = 200, !.bodyNotes = text]
     IN  IF ~gate.pass THEN last' = [req EXCEPT !.status = gate.status]
         ELSE IF variant = V_ENV_FILE THEN
           last' = ok(OrEmpty(FileNote(notesFile, ToStr(STAFF_EMAIL))))
         ELSE IF variant \in {V_ENV_GUARD, V_ENV_TABLE, V_ENV_DEFAULT} THEN
           IF ~tableClient THEN last' = ok(<<>>)
           ELSE LET r == GetEntity(STAFF_EMAIL, STR_NOTES, backend)
                IN  IF r.ok THEN last' = ok(OrEmpty(r.entity.notes))
                    ELSE IF variant = V_ENV_DEFAULT /\ r.statusCode # 404
                      THEN last' = [run EXCEPT !.status = 500, !.bodyNotes = <<>>]
                    ELSE last' = ok(<<>>)
         ELSE
           last' = ok(IF tableClient THEN GetNotesFromTable(gate.identity, backend) ELSE <<>>)
  /\ UNCHANGED <<pending, cfgVars, storeVars, issuedVars, crashed>>

\* an upsert that adds the new text to the text already stored
UpsertNotesAppending(tbl, principal, text) ==
  LET old == {e \in tbl : e.partitionKey = principal /\ e.rowKey = STR_NOTES}
      before == IF old = {} THEN <<>> ELSE OrEmpty((CHOOSE e \in old : TRUE).notes)
  IN  UpsertEntity(tbl, NoteEntity(principal, before \o OrEmpty(text)))

\* upsertNotesToTable / upsertNotesForUser / the inline upsert of the env revisions
UpsertNotes(tbl, principal, text) == UpsertEntity(tbl, NoteEntity(principal, OrEmpty(text)))

\* POST /api/notes {notes}
ApiPostNotes(cookie, notes, backend) ==
  /\ ~crashed
  /\ (variant # V_ENV_FILE /\ ~tableClient) => backend = "ok"
  \* a request the middleware turns away is sent without a body
  /\ ~RequireAuth(cookie).pass => (notes = Undef /\ backend = "ok")
  /\ LET req == [Blank EXCEPT !.op = "POST /api/notes", !.auth = cookie,
                              !.notes = notes, !.backend = backend]
         gate == RequireAuth(cookie)
         run == [req EXCEPT !.ran = TRUE, !.identity = gate.identity]
         \* again: the request before this one stored the same text for the same principal
         saved == [Reply(run, 200, "true") EXCEPT
                     !.persisted = TRUE,
                     !.again = /\ last.op = "POST /api/notes"
                               /\ last.persisted
                               /\ last.identity = gate.identity
                               /\ last.notes = notes]
     IN  IF ~gate.pass THEN
           /\ last' = [req EXCEPT !.status = gate.status]
           /\ UNCHANGED storeVars
         ELSE IF variant = V_ENV_FILE THEN
           IF backend = "error" THEN
             \* writeFileSync throws; Express answers the uncaught error with 500
             /\ last' = [run EXCEPT !.status = 500]
             /\ UNCHANGED storeVars
           ELSE
             /\ notesFile' = FileAssign(notesFile, ToStr(STAFF_EMAIL), OrEmpty(notes))
             /\ last' = saved
             /\ UNCHANGED table
         ELSE IF ~tableClient THEN
           /\ last' = IF variant = V_ENV_DEFAULT THEN Reply(run, 200, "true")
                      ELSE Reply(run, 500, "false")
           /\ UNCHANGED storeVars
         ELSE IF backend = "error" THEN
           /\ last' = Reply(run, 500, "false")
           /\ UNCHANGED storeVars
         ELSE
           /\ table' = UpsertNotes(table, gate.identity, notes)
           /\ last' = saved
           /\ UNCHANGED notesFile
  /\ UNCHANGED <<pending, cfgVars, issuedVars, crashed>>

\* ------------------------------------------------------------------ logout, admin

\* POST /api/logout
ApiLogout ==
  /\ ~crashed
  /\ last' = [Reply([Blank EXCEPT !.op = "POST /api/logout", !.ran = TRUE], 200, "true")
                EXCEPT !.clearAuth = TRUE, !.clearAdminAuth = (variant = V_ENV_GUARD)]
  /\ UNCHANGED <<pending, cfgVars, storeVars, issuedVars, crashed>>

\* the condition under which POST /api/admin/login issues the admin cookie
AdminPasswordAccepted(password) ==
  IF variant = V_ENV_GUARD
    THEN Truthy(password) /\ Truthy(ADMIN_PASSWORD) /\ password = ADMIN_PASSWORD
    ELSE password = ADMIN_PASSWORD

\* POST /api/admin/login {password}
ApiAdminLogin(password) ==
  /\ ~crashed
  /\ LET req == [Blank EXCEPT !.op = "POST /api/admin/login", !.password = password,
                              !.ran = TRUE]
     IN  IF variant \in JsonVariants \cup {V_USER} /\ ~Truthy(password) THEN
           /\ last' = Reply(req, 400, "false")
           /\ UNCHANGED adminIssued
         ELSE IF AdminPasswordAccepted(password) THEN
           /\ last' = [Reply(req, 200, "true") EXCEPT
                         !.setAdminAuth = Sign(STR_TRUE, COOKIE_SECRET)]
           /\ adminIssued' = adminIssued \cup {Sign(STR_TRUE, COOKIE_SECRET)}
         ELSE
           /\ last' = Reply(req, 401, "false")
           /\ UNCHANGED adminIssued
  /\ UNCHANGED <<pending, cfgVars, storeVars, staffIssued, crashed>>

\* POST /api/admin/logout
ApiAdminLogout(cookie) ==
  /\ ~crashed
  /\ variant \in JsonVariants \cup {V_USER}
  /\ LET req == [Blank EXCEPT !.op = "POST /api/admin/logout", !.adminAuth = cookie]
         gate == IF variant = V_USER THEN RequireAdmin(cookie) ELSE Passed(Undef)
     IN  IF ~gate.pass THEN last' = [req EXCEPT !.status = gate.status]
         ELSE last' = [Reply(req, 200, "true") EXCEPT !.ran = TRUE, !.clearAdminAuth = TRUE]
  /\ UNCHANGED <<pending, cfgVars, storeVars, issuedVars, crashed>>

\* POST /api/admin/create-user {username, name, phone, password}
ApiAdminCreateUser(cookie, username, password, backend) ==
  /\ ~crashed
  /\ variant = V_USER
  /\ ~tableClient => backend = "ok"
  \* a request the middleware turns away is sent without a body
  /\ ~RequireAdmin(cookie).pass => (username = Undef /\ password = Undef /\ backend = "ok")
  /\ LET req == [Blank EXCEPT !.op = "POST /api/admin/create-user", !.adminAuth = cookie,
                              !.username = username, !.password = password,
                              !.backend = backend]
         gate == RequireAdmin(cookie)
         run == [req EXCEPT !.ran = TRUE]
     IN  IF ~gate.pass THEN
           /\ last' = [req EXCEPT !.status = gate.status]
           /\ UNCHANGED table
         ELSE IF ~Truthy(username) \/ ~Truthy(password) THEN
           /\ last' = Reply(run, 400, "false")
           /\ UNCHANGED table
         ELSE IF ~tableClient \/ backend = "error" THEN
           /\ last' = Reply(run, 500, "false")
           /\ UNCHANGED table
         ELSE
           /\ table' = UpsertEntity(table,
                         Entity(STR_STAFF, username, Undef, username, <<>>,
                                BcryptHash(password)))
           /\ last' = [Reply(run, 200, "true") EXCEPT !.persisted = TRUE]
  /\ UNCHANGED <<pending, cfgVars, notesFile, issuedVars, crashed>>

\* ------------------------------------------------------------------ form gateway

TYPE_PLACEMENT    == <<"placement">>
TYPE_ACHIEVEMENTS == <<"achievements">>
TYPE_CODERIZZ     == <<"coderizz">>
TYPE_UNKNOWN      == <<"unknown">>
TYPE_CONSTRUCTOR  == <<"constructor">>

\* the :type path segments a client sends
TypeInputs ==
  {TYPE_PLACEMENT, TYPE_ACHIEVEMENTS, TYPE_CODERIZZ, TYPE_UNKNOWN, TYPE_CONSTRUCTOR}

\* the names every object inherits from Object.prototype
InheritedNames == {TYPE_CONSTRUCTOR}

\* the if / else-if chain on req.params.type over the hard-coded URLs
FormUrlByChain(type) ==
  IF type = TYPE_PLACEMENT THEN GFORM.placement
  ELSE IF type = TYPE_ACHIEVEMENTS THEN GFORM.achievements
  ELSE IF type = TYPE_CODERIZZ THEN GFORM.coderizz
  ELSE <<>>

\* forms[req.params.type] on the object literal {placement, achievements, coderizz}
FormUrlByMap(type) ==
  IF type = TYPE_PLACEMENT THEN GFORM.placement
  ELSE IF type = TYPE_ACHIEVEMENTS THEN GFORM.achievements
  ELSE IF type = TYPE_CODERIZZ THEN GFORM.coderizz
  ELSE IF type \in InheritedNames THEN Inherited
  ELSE Undef

\* the URL the handler resolves for :type
FormUrl(type) ==
  IF variant \in JsonVariants \cup {V_USER} THEN FormUrlByMap(type) ELSE FormUrlByChain(type)

\* what the outbound request meets: a response, or a network error
Upstreams ==
  { [kind |-> "response", statusCode |-> 200, contentType |-> TEXT_HTML],
    [kind |-> "response", statusCode |-> 404, contentType |-> Undef],
    [kind |-> "error", statusCode |-> 0, contentType |-> Undef] }

LOCALHOST == <<"https://localhost">>

\* the texts the gateway sends as a body of its own
MSG_NOT_CONFIGURED == <<"Form not configured">>
MSG_FAILED_TO_LOAD == <<"Failed to load form">>
MSG_ERROR_LOADING  == <<"Error loading form">>
\* the upstream's bytes, piped through
UPSTREAM_BODY == <<"#piped">>

\* where https.get(url, cb) connects: a non-string first argument is taken as the
\* options object, whose host defaults to localhost
FetchTarget(url) == IF url = Inherited THEN LOCALHOST ELSE url

\* GET /secure-form/:type
SecureForm(cookie, type, upstream) ==
  /\ ~crashed
  /\ LET req == [Blank EXCEPT !.op = "GET /secure-form", !.adminAuth = cookie, !.type = type]
         gate == RequireAdmin(cookie)
         run == [req EXCEPT !.ran = TRUE]
         url == FormUrl(type)
         sent == [run EXCEPT !.fetched = FetchTarget(url), !.upstream = upstream]
     IN  IF ~gate.pass THEN
           /\ upstream.kind = "error"
           /\ last' = [req EXCEPT !.status = gate.status]
           /\ UNCHANGED crashed
         ELSE IF ~Truthy(url) THEN
           /\ upstream.kind = "error"
           /\ last' = [run EXCEPT !.status = 404,
                                   !.body = IF variant \in JsonVariants \cup {V_USER}
                                            THEN MSG_NOT_CONFIGURED ELSE <<>>]
           /\ UNCHANGED crashed
         ELSE IF variant = V_USER THEN
           /\ upstream.kind = "error"
           /\ last' = [run EXCEPT !.status = 302, !.redirect = url]
           /\ UNCHANGED crashed
         ELSE IF upstream.kind = "error" THEN
           IF variant = V_ENV_FILE THEN
             \* no 'error' listener on the ClientRequest: the event is thrown
             /\ last' = sent
             /\ crashed' = TRUE
           ELSE
             /\ last' = [sent EXCEPT
                   !.status = IF variant \in JsonVariants THEN 502 ELSE 500,
                   !.body = IF variant \in JsonVariants THEN MSG_FAILED_TO_LOAD
                            ELSE MSG_ERROR_LOADING]
             /\ UNCHANGED crashed
         ELSE IF url = Inherited THEN
           \* the callback slot holds the inherited function: nothing answers
           /\ last' = sent
           /\ UNCHANGED crashed
         ELSE
           /\ last' = [sent EXCEPT
                 !.status = IF variant = V_JSON THEN upstream.statusCode ELSE 200,
                 !.body = UPSTREAM_BODY,
                 !.contentType =
                    IF variant \in JsonVariants THEN upstream.contentType
                    ELSE IF Truthy(upstream.contentType) THEN upstream.contentType
                    ELSE TEXT_HTML]
           /\ UNCHANGED crashed
  /\ UNCHANGED <<pending, cfgVars, storeVars, issuedVars>>

\* staff.json is read again on every request, the table is queried on every
\* request: the operator removes the record of a staff member
RemoveStaffRecord(id) ==
  /\ variant \in JsonVariants \cup {V_USER}
  /\ IF variant \in JsonVariants THEN
       /\ \E i \in DOMAIN staffJson : staffJson[i].email = id
       /\ staffJson' = SelectSeq(staffJson, LAMBDA s : s.email # id)
       /\ UNCHANGED table
     ELSE
       /\ \E e \in table : e.partitionKey = STR_STAFF /\ e.rowKey = id
       /\ table' = {e \in table : ~(e.partitionKey = STR_STAFF /\ e.rowKey = id)}
       /\ UNCHANGED staffJson
  /\ last' = [Blank EXCEPT !.op = "staff record removed"]
  /\ UNCHANGED <<pending, variant, STAFF_EMAIL, STAFF_PHONE, ADMIN_PASSWORD, tableClient,
                 GFORM, notesFile, issuedVars, crashed>>

\* the host starts the process again: app.listen
Restart ==
  /\ crashed
  /\ crashed' = FALSE
  /\ last' = [Blank EXCEPT !.op = "listen"]
  /\ UNCHANGED <<pending, cfgVars, storeVars, issuedVars>>

\* ------------------------------------------------------------------ specification

PasswordInputs == {Undef, PW_1, PW_2, NUM_1}
UsernameInputs == {Undef, USER_1, USER_2, STR_TRUE}
AdminPasswordInputs == {Undef, ADMIN_PW, PW_1}

\* the accounts the admin creates
NewUsernames == {Undef, STR_TRUE}
NewPasswords == {Undef, PW_1}

Next ==
  \/ \E email \in EmailInputs, phone \in PhoneInputs : ApiLogin(email, phone)
  \/ \E username \in UsernameInputs, password \in PasswordInputs, backend \in BackendStates :
       ApiStaffLogin(username, password, backend)
  \/ \E cookie \in CookieInputs(VictimId), backend \in BackendStates : ApiMe(cookie, backend)
  \/ \E cookie \in CookieInputs(VictimId), backend \in BackendStates :
       ApiGetNotes(cookie, backend)
  \/ \E cookie \in CookieInputs(VictimId), notes \in NoteInputs, backend \in BackendStates :
       ApiPostNotes(cookie, notes, backend)
  \/ ApiLogout
  \/ \E password \in AdminPasswordInputs : ApiAdminLogin(password)
  \/ \E cookie \in CookieInputs(STR_TRUE) : ApiAdminLogout(cookie)
  \/ \E cookie \in CookieInputs(STR_TRUE), username \in NewUsernames,
        password \in NewPasswords, backend \in BackendStates :
       ApiAdminCreateUser(cookie, username, password, backend)
  \/ \E cookie \in CookieInputs(STR_TRUE), type \in TypeInputs, upstream \in Upstreams :
       SecureForm(cookie, type, upstream)
  \/ RemoveStaffRecord(VictimId)
  \/ Restart

Spec == Init /\ [][Next]_vars

\* ------------------------------------------------------------------ concurrent writes

\* the POST /api/notes requests of one run
MaxWrites == 3

\* the texts the concurrent writers send
WriteTexts == {<<"x">>, <<"y">>}

\* one POST /api/notes run whose upsert went out to the table service: whose note,
\* which text, how far it got, and its place in the order in which the store
\* performed the writes (0: not performed)
Write(principal, text, stage, seq) ==
  [principal |-> principal, text |-> text, stage |-> stage, seq |-> seq]

\* the place the next write the store performs takes
NextSeq ==
  LET used == {pending[i].seq : i \in DOMAIN pending} \cup {0}
  IN  1 + (CHOOSE m \in used : \A n \in used : m >= n)

\* POST /api/notes up to its first await: requireAuth, the checks, and the upsert
\* call handed to the table client.  The notes.json revision reads, changes and
\* writes the file synchronously and answers in the same turn.
PostNotesReceive(cookie, notes, backend) ==
  /\ ~crashed
  /\ Len(pending) < MaxWrites
  /\ variant # V_ENV_FILE => backend = "ok"
  /\ LET req == [Blank EXCEPT !.op = "POST /api/notes", !.auth = cookie, !.notes = notes]
         gate == RequireAuth(cookie)
         run == [req EXCEPT !.ran = TRUE, !.identity = gate.identity]
         log(stage, seq) == Append(pending, Write(gate.identity, notes, stage, seq))
     IN  IF ~gate.pass THEN
           /\ last' = [req EXCEPT !.status = gate.status]
           /\ UNCHANGED <<pending, storeVars>>
         ELSE IF variant = V_ENV_FILE THEN
           IF backend = "error" THEN
             /\ last' = [run EXCEPT !.status = 500]
             /\ UNCHANGED <<pending, storeVars>>
           ELSE
             /\ notesFile' = FileAssign(notesFile, ToStr(STAFF_EMAIL), OrEmpty(notes))
             /\ last' = [Reply(run, 200, "true") EXCEPT !.persisted = TRUE]
             /\ pending' = log("answered", NextSeq)
             /\ UNCHANGED table
         ELSE IF ~tableClient THEN
           /\ last' = IF variant = V_ENV_DEFAULT THEN Reply(run, 200, "true")
                      ELSE Reply(run, 500, "false")
           /\ UNCHANGED <<pending, storeVars>>
         ELSE
           /\ last' = run
           /\ pending' = log("sent", 0)
           /\ UNCHANGED storeVars
  /\ UNCHANGED <<cfgVars, issuedVars, crashed>>

\* the table service performs the upsert of one waiting run, or the call fails;
\* the run resumes after its await and answers {success: true}, or 500 from its catch
PostNotesResume(i, outcome) ==
  /\ ~crashed
  /\ i \in DOMAIN pending
  /\ pending[i].stage = "sent"
  /\ LET ok == outcome = "ok"
         run == [Blank EXCEPT !.op = "POST /api/notes", !.notes = pending[i].text,
                              !.identity = pending[i].principal, !.ran = TRUE,
                              !.backend = outcome, !.persisted = ok]
     IN  IF ok THEN
           /\ table' = UpsertNotes(table, pending[i].principal, pending[i].text)
           /\ pending' = [pending EXCEPT ![i].stage = "answered", ![i].seq = NextSeq]
           /\ last' = Reply(run, 200, "true")
         ELSE
           /\ pending' = [pending EXCEPT ![i].stage = "answered"]
           /\ last' = Reply(run, 500, "false")
           /\ UNCHANGED table
  /\ UNCHANGED <<cfgVars, notesFile, issuedVars, crashed>>

\* the credentials of the deployment's staff accounts
StaffLogins == {<<EMAIL_A, PHONE_6>>, <<STR_TRUE, PHONE_7>>}

NextConcurrent ==
  \/ \E c \in StaffLogins : ApiLogin(c[1], c[2])
  \/ ApiStaffLogin(USER_1, PW_1, "ok")
  \/ \E cookie \in {NoCookie} \cup staffIssued, notes \in WriteTexts, backend \in BackendStates :
       PostNotesReceive(cookie, notes, backend)
  \/ \E i \in 1..MaxWrites, outcome \in BackendStates : PostNotesResume(i, outcome)

\* the server with its POST /api/notes runs interleaved at their awaits
SpecConcurrent == Init /\ [][NextConcurrent]_vars

\* ------------------------------------------------------------------ one shared table

\* the usernames the admin creates and the staff log in under
SharedUsernames == {USER_1, STR_STAFF, STR_NOTES}

\* the username/password revision on its table
InitShared ==
  /\ Init
  /\ variant = V_USER
  /\ tableClient

NextShared ==
  \/ ApiAdminLogin(ADMIN_PW)
  \/ \E cookie \in {NoCookie} \cup adminIssued, username \in SharedUsernames,
        backend \in BackendStates :
       ApiAdminCreateUser(cookie, username, PW_1, backend)
  \/ \E username \in SharedUsernames : ApiStaffLogin(username, PW_1, "ok")
  \/ \E cookie \in {NoCookie} \cup staffIssued, notes \in NoteInputs, backend \in BackendStates :
       ApiPostNotes(cookie, notes, backend)

\* staff records and notes of the username/password revision in their one table
SpecShared == InitShared /\ [][NextShared]_vars

\* ------------------------------------------------------------------ staff lookup

\* longest staff.json the lookup is run on
MaxStaff == 2

\* the records a staff.json holds: an email and a phone number
StaffRecords ==
  {StaffRecord(e, p) : e \in {EMAIL_A, EMAIL_B}, p \in {PHONE_6, PHONE_916, PHONE_7}}

\* a staff.json revision started on any staff.json
InitFind ==
  /\ variant \in JsonVariants
  /\ STAFF_EMAIL = Undef
  /\ STAFF_PHONE = Undef
  /\ ADMIN_PASSWORD = ADMIN_PW
  /\ tableClient = TRUE
  /\ GFORM = EnvForms
  /\ staffJson \in SeqsUpTo(StaffRecords, MaxStaff)
  /\ notesFile = {}
  /\ table = {}
  /\ staffIssued = {}
  /\ adminIssued = {}
  /\ crashed = FALSE
  /\ last = Blank
  /\ pending = <<>>

NextFind == \E email \in EmailInputs, phone \in PhoneInputs : ApiLogin(email, phone)

\* POST /api/login, and with it findStaffByEmailAndPhone, over every staff.json
SpecFind == InitFind /\ [][NextFind]_vars

\* ------------------------------------------------------------------ vocabulary of the claims

StaffLoginOps == {"POST /api/login", "POST /api/staff/login"}
StaffOnlyOps == {"GET /api/me", "GET /api/notes", "POST /api/notes"}

\* the routes the running revision puts behind requireAdmin
AdminOnlyOps ==
  {"GET /secure-form"} \cup
    (IF variant = V_USER THEN {"POST /api/admin/create-user", "POST /api/admin/logout"} ELSE {})

\* the cookie is missing, unsigned, signed with another key, or its text was changed
BadCookie(c) == c.form # "signed" \/ c.key # COOKIE_SECRET \/ c.mval # c.val

\* Section 4.1 (b): the phone of a record equals the input, or '+91' followed by
\* the input, or the two agree once their non-digits are removed
PhoneEquivalent(recordPhone, phone) ==
  \/ recordPhone = phone
  \/ recordPhone = <<"+","9","1">> \o phone
  \/ StripNonDigits(recordPhone) = StripNonDigits(phone)

\* the request's credentials are those of a known staff account
MatchesKnownStaff(r) ==
  IF variant \in EnvVariants THEN
    /\ STAFF_EMAIL # Undef /\ STAFF_PHONE # Undef
    /\ r.email = STAFF_EMAIL /\ r.phone = STAFF_PHONE
  ELSE IF variant \in JsonVariants THEN
    /\ r.email # Undef /\ r.phone # Undef
    /\ \E i \in DOMAIN staffJson :
         /\ staffJson[i].email = Trim(r.email)
         /\ PhoneEquivalent(staffJson[i].phone, Trim(r.phone))
  ELSE
    /\ r.username # Undef /\ r.password # Undef
    /\ \E e \in table :
         /\ e.partitionKey = STR_STAFF /\ e.rowKey = r.username
         /\ e.passwordHash = BcryptHash(r.password)

\* the staff backend holds a record for the identifier
StaffRecordExists(id) ==
  IF variant \in JsonVariants THEN \E i \in DOMAIN staffJson : staffJson[i].email = id
  ELSE \E e \in table : e.partitionKey = STR_STAFF /\ e.rowKey = id

\* the principals that own a note in some reachable store
Principals == {EMAIL_A, STR_TRUE, USER_1}

\* the note entries the store holds for a principal
NoteEntries(principal) ==
  IF variant = V_ENV_FILE THEN {e \in notesFile : e.key = principal}
  ELSE {e \in table : e.partitionKey = principal /\ e.rowKey = STR_NOTES}

\* ------------------------------------------------------------------ claims

\* C1: a staff login whose credentials match no known staff account is answered
\* 401 (400 where the revision validates the fields first) and sets no 'auth'
\* cookie, in every configuration, also with STAFF_EMAIL / STAFF_PHONE unset.
C1_WrongLoginIsRejected ==
  (last.op \in StaffLoginOps /\ ~MatchesKnownStaff(last)) =>
     /\ last.status \in {400, 401}
     /\ last.setAuth = NoCookie

\* C2: a value signed by the admin login never passes requireAuth on a staff-only
\* route, and a value signed by the staff login never passes requireAdmin,
\* under whichever cookie name it is presented.
C2_SessionKindsDisjoint ==
  /\ (last.op \in StaffOnlyOps /\ last.auth \in adminIssued /\ staffIssued = {}) =>
        (last.status = 401 /\ ~last.ran)
  /\ (last.op \in AdminOnlyOps /\ last.adminAuth \in staffIssued /\ adminIssued = {}) =>
        (last.status = 403 /\ ~last.ran)

\* C3: POST /api/admin/login sets 'adminAuth' only for a request that carries a
\* password string equal to the configured admin secret; with no secret configured
\* no request gets the cookie.
C3_AdminCookieOnlyForSecret ==
  (last.op = "POST /api/admin/login" /\ last.setAdminAuth # NoCookie) =>
     /\ ADMIN_PASSWORD # Undef
     /\ last.password # Undef
     /\ last.password = ADMIN_PASSWORD

\* C4: GET /api/me with a cookie the staff login issued, the staff backend being
\* reachable and still holding the account, answers 200 with the identifier the
\* cookie was issued for; without a cookie it answers 401.
C4_MeReturnsLoginIdentity ==
  /\ (/\ last.op = "GET /api/me" /\ last.auth \in staffIssued /\ last.backend = "ok"
      /\ (variant \notin EnvVariants => StaffRecordExists(last.auth.val))) =>
        (last.status = 200 /\ last.bodyId = last.auth.val)
  /\ (last.op = "GET /api/me" /\ last.auth = NoCookie) => last.status = 401

\* C5: a POST /api/notes {notes: x} answered with success, followed by GET
\* /api/notes with the same cookie and a reachable backend, returns x; and the POST
\* leaves every other principal's note as it was.  In every deployment, also one
\* with no notes backend.
C5_NotesReadBackAndIsolation ==
  [][ /\ (/\ last.op = "POST /api/notes" /\ last.status = 200 /\ last.success = "true"
          /\ last'.op = "GET /api/notes" /\ last'.auth = last.auth /\ last'.backend = "ok")
         => (last'.status = 200 /\ last'.bodyNotes = OrEmpty(last.notes))
      /\ (last'.op = "POST /api/notes")
         => \A q \in Principals \ {last'.identity} : NoteEntries(q)' = NoteEntries(q)
    ]_vars

\* C6: a POST /api/notes that stores x for a principal right after a POST that
\* stored the same x for the same principal leaves the store as the first left it,
\* with exactly one note entry for the principal, whose text is x.
C6_SecondWriteChangesNothing ==
  [][ (/\ last.op = "POST /api/notes" /\ last.persisted
       /\ last'.op = "POST /api/notes" /\ last'.persisted
       /\ last'.identity = last.identity /\ last'.notes = last.notes)
      => /\ notesFile' = notesFile
         /\ table' = table
         /\ Cardinality(NoteEntries(last.identity)') = 1
         /\ StoredNote(last.identity)' = OrEmpty(last.notes)
    ]_vars

\* C6 witness: the second of two equal writes has just been stored
C6_Witness ==
  /\ last.op = "POST /api/notes" /\ last.again /\ last.notes \notin {Undef, <<>>}
  /\ StoredNote(last.identity) = last.notes

\* C7: GET /api/notes with a valid staff session answers 200 {notes: ''} when the
\* principal has no note, when the backend says not found and when the backend
\* call fails otherwise.
C7_ReadMasksEveryFailure ==
  (/\ last.op = "GET /api/notes" /\ last.ran
   /\ (last.backend = "error" \/ NoteEntries(last.identity) = {}))
  => (last.status = 200 /\ last.bodyNotes = <<>>)

\* C8: POST /api/notes with a valid staff session answers 5xx when no backend is
\* configured or the write fails, and {success: true} only when the text is stored.
C8_WriteFailsLoudly ==
  (last.op = "POST /api/notes" /\ last.ran) =>
     /\ ((variant # V_ENV_FILE /\ ~tableClient) \/ last.backend = "error") => last.status >= 500
     /\ last.success = "true" => StoredNote(last.identity) = OrEmpty(last.notes)

\* C9: with a valid admin session, a :type outside the configured categories, or a
\* category whose URL is empty, gets 404 with no outbound fetch and no redirect;
\* without a valid admin session every :type gets 403.
C9_UnknownFormIs404 ==
  last.op = "GET /secure-form" =>
     /\ (/\ last.ran
         /\ \/ last.type \notin {TYPE_PLACEMENT, TYPE_ACHIEVEMENTS, TYPE_CODERIZZ}
            \/ FormUrlByChain(last.type) = <<>>)
        => (last.status = 404 /\ last.fetched = Undef /\ last.redirect = Undef)
     /\ BadCookie(last.adminAuth) => last.status = 403

\* C10: a request to a route behind requireAuth whose 'auth' cookie is missing,
\* unsigned, wrongly signed or altered is answered 401, one to a route behind
\* requireAdmin with such an 'adminAuth' cookie 403; the handler does not run, the
\* request gets no identity, nothing is stored, fetched or set.
C10_VerificationFailsClosed ==
  LET untouched == /\ ~last.ran /\ last.identity = Undef /\ ~last.persisted
                   /\ last.fetched = Undef /\ last.redirect = Undef
                   /\ last.bodyNotes = Undef /\ last.bodyId = Undef
                   /\ last.setAuth = NoCookie /\ last.setAdminAuth = NoCookie
  IN  /\ (last.op \in StaffOnlyOps /\ BadCookie(last.auth)) =>
            (last.status = 401 /\ untouched)
      /\ (last.op \in AdminOnlyOps /\ BadCookie(last.adminAuth)) =>
            (last.status = 403 /\ untouched)

\* C10 witness: a cookie the server signed, its text altered, was turned away on
\* a staff route, and a forged one on an admin route is also reachable
C10_Witness ==
  /\ last.op = "POST /api/notes"
  /\ last.auth.form = "signed" /\ last.auth.key = COOKIE_SECRET
  /\ last.auth.mval # last.auth.val
  /\ last.status = 401

\* ------------------------------------------------------------------ vocabulary, continued

\* the upstream URLs this deployment is configured with
ConfiguredUrls == {GFORM.placement, GFORM.achievements, GFORM.coderizz} \ {<<>>}

\* the URL configured for a category, '' when there is none
ConfiguredUrl(type) ==
  IF type = TYPE_PLACEMENT THEN GFORM.placement
  ELSE IF type = TYPE_ACHIEVEMENTS THEN GFORM.achievements
  ELSE IF type = TYPE_CODERIZZ THEN GFORM.coderizz
  ELSE <<>>

ClientError == 400..499
ServerError == 500..599

\* C11: where staff records are looked up at request time (staff.json, the table),
\* a request to a staff-only route with a cookie the login issued, sent after the
\* record of that identifier was removed, is answered 401 and reads and writes no
\* note.
C11_RemovedStaffIsLockedOut ==
  (/\ variant \in JsonVariants \cup {V_USER}
   /\ last.op \in StaffOnlyOps
   /\ last.auth \in staffIssued
   /\ ~StaffRecordExists(last.auth.val))
  => (last.status = 401 /\ ~last.ran /\ ~last.persisted /\ last.bodyNotes = Undef)

\* C12: no response of GET /secure-form/:type carries a configured upstream URL,
\* neither as a redirect target, nor in a header, nor in the body of an error.
C12_FormUrlNeverRevealed ==
  last.op = "GET /secure-form" =>
    \A u \in ConfiguredUrls :
      /\ last.redirect # u
      /\ last.contentType # u
      /\ last.status >= 400 => last.body # u

\* C13: when the outbound fetch of GET /secure-form/:type fails at the network
\* level, the caller gets a response, and its status is 5xx.
C13_FetchFailureIs5xx ==
  (last.op = "GET /secure-form" /\ last.upstream.kind = "error")
  => last.status \in ServerError

\* C14: for a configured category, GET /secure-form/:type with a valid admin
\* session makes one outbound fetch, to the configured URL, and answers with the
\* upstream response's status code and content-type.
C14_UpstreamForwardedVerbatim ==
  (/\ last.op = "GET /secure-form" /\ last.ran
   /\ ConfiguredUrl(last.type) # <<>>)
  => /\ last.fetched = ConfiguredUrl(last.type)
     /\ last.upstream.kind = "response" =>
          /\ last.status = last.upstream.statusCode
          /\ last.contentType = last.upstream.contentType

\* C15: POST /api/admin/logout without a valid admin session is answered 403 and
\* leaves 'adminAuth' alone; with an admin session it answers {success: true} and
\* clears the cookie.
C15_AdminLogoutIsProtected ==
  last.op = "POST /api/admin/logout" =>
    /\ BadCookie(last.adminAuth) => (last.status = 403 /\ ~last.clearAdminAuth)
    /\ last.adminAuth \in adminIssued =>
         (last.status = 200 /\ last.success = "true" /\ last.clearAdminAuth)

\* C16: a staff or admin login whose body lacks a required field, and an
\* authenticated POST /api/notes whose body lacks notes, is answered 4xx, sets no
\* cookie and stores nothing.
C16_MissingFieldIs400 ==
  /\ (last.op = "POST /api/login" /\ (last.email = Undef \/ last.phone = Undef))
       => (last.status \in ClientError /\ last.setAuth = NoCookie)
  /\ (last.op = "POST /api/staff/login" /\ (last.username = Undef \/ last.password = Undef))
       => (last.status \in ClientError /\ last.setAuth = NoCookie)
  /\ (last.op = "POST /api/admin/login" /\ last.password = Undef)
       => (last.status \in ClientError /\ last.setAdminAuth = NoCookie)
  /\ (last.op = "POST /api/notes" /\ last.ran /\ last.notes = Undef)
       => (last.status \in ClientError /\ ~last.persisted)

\* C17: POST /api/staff/login with a non-empty username and password that is
\* denied - no record, a record without a hash, a hash that does not verify, no
\* table backend - gets one and the same response: 401 {success: false}, no cookie.
C17_DenialsAreIndistinguishable ==
  (/\ last.op = "POST /api/staff/login"
   /\ Truthy(last.username) /\ Truthy(last.password)
   /\ ~MatchesKnownStaff(last))
  => (last.status = 401 /\ last.success = "false" /\ last.setAuth = NoCookie)

\* C18: POST /api/logout clears the 'auth' cookie and only that one: the client's
\* 'adminAuth' cookie is left as it is.
C18_LogoutKeepsAdminSession ==
  last.op = "POST /api/logout" =>
    (last.status = 200 /\ last.clearAuth /\ ~last.clearAdminAuth)

\* C19: POST /api/login of a staff.json revision, through findStaffByEmailAndPhone,
\* finds a record exactly when some record has the (trimmed) email and a phone
\* equivalent to the (trimmed) input; the record found is the first such entry;
\* otherwise the login is denied.  An input without a digit finds no record.
C19_FindReturnsFirstMatch ==
  (/\ variant \in JsonVariants
   /\ last.op = "POST /api/login" /\ Truthy(last.email) /\ Truthy(last.phone)) =>
    LET email == Trim(last.email)
        phone == Trim(last.phone)
        matches == {i \in DOMAIN staffJson :
                      /\ staffJson[i].email = email
                      /\ PhoneEquivalent(staffJson[i].phone, phone)}
    IN  /\ matches = {} =>
             (last.status = 401 /\ last.staff = NoStaff /\ last.setAuth = NoCookie)
        /\ matches # {} =>
             /\ last.status = 200
             /\ \E i \in matches : /\ last.staff = staffJson[i]
                                   /\ \A k \in matches : i <= k
        /\ StripNonDigits(phone) = <<>> => last.staff = NoStaff

\* C19 witness: two different records satisfy the rules for the input and the
\* one that comes first in staff.json was returned
C19_Witness ==
  /\ last.op = "POST /api/login" /\ last.status = 200
  /\ Len(staffJson) = 2 /\ staffJson[1] # staffJson[2]
  /\ staffJson[2].email = Trim(last.email)
  /\ PhoneEquivalent(staffJson[2].phone, Trim(last.phone))
  /\ last.staff = staffJson[1]

\* C20: however concurrent POST /api/notes runs interleave, each principal has at
\* most one note entry; it has none as long as the store performed no write for
\* the principal, and otherwise exactly one, whose text is that of the write for
\* this principal the store performed last - so never a text of another
\* principal's write, and never lost to one.
C20_LastCompletedWriteWins ==
  \A p \in Principals :
    LET done == {i \in DOMAIN pending : pending[i].principal = p /\ pending[i].seq > 0}
    IN  /\ Cardinality(NoteEntries(p)) <= 1
        /\ done = {} => NoteEntries(p) = {}
        /\ done # {} =>
             /\ Cardinality(NoteEntries(p)) = 1
             /\ \E i \in done :
                  /\ \A k \in done : pending[k].seq <= pending[i].seq
                  /\ StoredNote(p) = OrEmpty(pending[i].text)

\* C20 witness: two runs wrote different texts for one principal, the store
\* performed the later request first, and a run for another principal was
\* performed in between or around them
C20_Witness ==
  /\ Len(pending) = 3
  /\ pending[1].principal = pending[2].principal
  /\ pending[1].text # pending[2].text
  /\ pending[3].principal # pending[1].principal
  /\ pending[2].seq > 0 /\ pending[3].seq > pending[2].seq /\ pending[1].seq > pending[3].seq
  /\ StoredNote(pending[1].principal) = pending[1].text

\* the StaffRecord entities: partition 'staff', row = username
StaffEntities == {e \in table : e.partitionKey = STR_STAFF}

\* C21: in the username/password revision no POST /api/notes creates or changes
\* an entity of partition 'staff', and no POST /api/admin/create-user creates or
\* changes the note entity of any principal, the usernames 'staff' and 'notes'
\* included.
C21_RecordsAndNotesApart ==
  [][ /\ last'.op = "POST /api/notes" => StaffEntities' = StaffEntities
      /\ last'.op = "POST /api/admin/create-user" =>
           \A p \in SharedUsernames : NoteEntries(p)' = NoteEntries(p)
    ]_vars

====
